---- MODULE Spec2Model ----
(***************************************************************************)
(* Model of the video tree service (src/src/services/video-tree.service.ts)*)
(* of watchtrees-backend.  The backing store holds two collections: tree   *)
(* documents and flat node documents.  Every service function is a request *)
(* handler; a handler that awaits the store several times is split at its  *)
(* awaits, so that requests interleave between two store operations just   *)
(* as they do on the server.  A handler that issues one store operation    *)
(* (updateFavorites, incrementViews) is one atomic step, and the read      *)
(* handlers are operators over the store's state.                          *)
(*                                                                         *)
(* The node service, the tree utilities, the tree schema and the history   *)
(* service are not among the source files; they are modelled from sections *)
(* 3 and 4 of spec.md.  The History schema is src/unnamed/part_004.        *)
(***************************************************************************)
EXTENDS Integers, Sequences, FiniteSets, TLC

\* Number of trees that may be created (tree ids are 1..MaxTrees).
MaxTrees == 2
\* Number of service calls that may be started in one behaviour.
MaxCalls == 3
\* Listings examined on their own: documents matching the filter, page
\* number, page size.
MaxDocs == 25
MaxPage == 3
MaxSize == 10
\* Flat node sets examined on their own: number of node ids.
MaxNodes == 3

\* Authenticated identities, and the absent (undefined) userId of a viewer
\* who is not signed in.
Users == {"u1", "u2"}
Anonymous == "anonymous"
\* Requests in flight at the same time.
Procs == {"p1", "p2"}

TreeIds == 1 .. MaxTrees
\* The root node created for the k-th tree gets node id k; ids of the other
\* nodes are chosen by the client that submits them.
ChildIds == {MaxTrees + 1}
NodeIds == TreeIds \cup ChildIds

\* parentId of a root node (null).
NullId == 0
\* An absent document, an absent upload.
NoDoc == [kind |-> "none"]

\* The handlers test a status only against 'private' (line 149) and 'public'
\* (line 239): 'draft' is handled as every status that is neither.
Statuses == {"public", "private"}
\* A title or a node payload is either empty or set.
Empty == ""
Titles == {Empty, "title"}
Payloads == {Empty, "video"}

VARIABLES
    trees,      \* tree collection: TreeIds -> tree document or NoDoc
    nodes,      \* node collection: NodeIds -> node document or NoDoc
    nextTree,   \* number of root nodes created so far
    procs,      \* the requests in flight: Procs -> request record
    calls,      \* number of service calls started
    createdBy,  \* history: the owner passed to the create call of each tree
    removed,    \* history: trees whose remove call returned successfully
    incs,       \* history: incrementViews calls applied to each tree
    toggles,    \* history: updateFavorites calls per tree and viewer
    infoNodes,  \* history: the node part of the submission (or creation)
                \*          whose tree metadata was stored last
    purged,     \* history: owners whose deleteByCreator call has returned
    histories,  \* History collection: sequence of History documents
    reports,    \* the upsertProgress calls in flight
    query       \* a read under examination: its arguments and its answer

vars == <<trees, nodes, nextTree, procs, calls, createdBy, removed, incs,
          toggles, infoNodes, purged, histories, reports, query>>

\* The variables the tree handlers never touch.
aside == <<purged, histories, reports, query>>

history == <<createdBy, removed, incs, toggles, infoNodes>>

Range(s) == {s[i] : i \in DOMAIN s}

----------------------------------------------------------------------------
(* Documents *)

\* VideoNodeService.createRoot: a layer-0 node with null parent and no
\* payload, owned by userId.
RootNode(userId) ==
    [parentId |-> NullId, layer |-> 0, info |-> Empty, creator |-> userId]

\* The schema defaults of a new tree document.
DefaultInfo ==
    [title |-> Empty, status |-> "public", isEditing |-> TRUE]

DefaultData == [views |-> 0, favorites |-> <<>>]

\* new VideoTreeModel({ root: root._id, info: { creator: userId } })
NewTree(rootId, userId) ==
    [root |-> rootId,
     info |-> [title |-> DefaultInfo.title, status |-> DefaultInfo.status,
               isEditing |-> DefaultInfo.isEditing, creator |-> userId],
     data |-> DefaultData]

\* A request: where it stands (pc), the handler and its arguments (id, user,
\* upload), the creator and the data block of the tree document it read
\* (docCreator, docData), whether its save came after a change of that data
\* block (stale, history), and what it returned.
IdleProc ==
    [pc |-> "idle", op |-> "none", id |-> 0, user |-> Anonymous,
     upload |-> NoDoc, docCreator |-> Anonymous, docData |-> NoDoc,
     stale |-> FALSE, result |-> "none"]

Call(pc, op, id, user, upload, docCreator) ==
    [pc |-> pc, op |-> op, id |-> id, user |-> user, upload |-> upload,
     docCreator |-> docCreator, docData |-> NoDoc, stale |-> FALSE,
     result |-> "none"]

Returned(op, id, user, res) ==
    [pc |-> "done", op |-> op, id |-> id, user |-> user, upload |-> NoDoc,
     docCreator |-> Anonymous, docData |-> NoDoc, stale |-> FALSE,
     result |-> res]

Done(p, res) ==
    [procs EXCEPT ![p] = Returned(procs[p].op, procs[p].id, procs[p].user, res)]

\* The request returns from a save of a document whose data block had
\* changed in the collection since the request read it (history).
DoneStale(p, res) ==
    [procs EXCEPT ![p] =
        [Returned(procs[p].op, procs[p].id, procs[p].user, res)
            EXCEPT !.stale = TRUE]]

Free(p) == procs[p].pc \in {"idle", "done"}

Quiescent == \A p \in Procs : Free(p)

----------------------------------------------------------------------------
\* The empty tree and node collections, no request in flight.
StoreInit ==
    /\ trees = [t \in TreeIds |-> NoDoc]
    /\ nodes = [n \in NodeIds |-> NoDoc]
    /\ nextTree = 0
    /\ procs = [p \in Procs |-> IdleProc]
    /\ calls = 0
    /\ createdBy = [t \in TreeIds |-> Anonymous]
    /\ removed = {}
    /\ incs = [t \in TreeIds |-> 0]
    /\ toggles = [t \in TreeIds |-> [u \in Users |-> 0]]
    /\ infoNodes = [t \in TreeIds |-> NoDoc]
    /\ purged = {}

\* The empty History collection, no progress report in flight.
HistoryInit ==
    /\ histories = <<>>
    /\ reports = [p \in Procs |-> NoDoc]

Init ==
    /\ StoreInit
    /\ HistoryInit
    /\ query = NoDoc

----------------------------------------------------------------------------
(* create *)

\* create, up to its first await: createRoot(userId) stores the root node.
CreateRoot(p, userId) ==
    /\ Free(p)
    /\ calls < MaxCalls
    /\ nextTree < MaxTrees
    /\ calls' = calls + 1
    /\ nextTree' = nextTree + 1
    /\ nodes' = [nodes EXCEPT ![nextTree + 1] = RootNode(userId)]
    /\ procs' = [procs EXCEPT ![p] =
                    Call("create_save", "create", nextTree + 1, userId, NoDoc,
                         Anonymous)]
    /\ UNCHANGED <<trees, history, aside>>

\* create, the rest: videoTree.save() stores the tree document.
CreateSave(p) ==
    /\ procs[p].pc = "create_save"
    /\ trees' = [trees EXCEPT ![procs[p].id] =
                    NewTree(procs[p].id, procs[p].user)]
    /\ createdBy' = [createdBy EXCEPT ![procs[p].id] = procs[p].user]
    /\ infoNodes' = [infoNodes EXCEPT ![procs[p].id] =
                        [rootInfo |-> Empty, kids |-> {}]]
    /\ procs' = Done(p, "ok")
    /\ UNCHANGED <<nodes, nextTree, calls, removed, incs, toggles, aside>>

----------------------------------------------------------------------------
(* The node store (VideoNodeService) and the tree utilities *)

\* The layer a client may declare for a child of the root: its depth, or a
\* depth that contradicts its position.
KidLayers == {1, 2}

\* The nodes a client may submit under a root: children of the root, each id
\* at most once, each with its payload and the layer it declares.
KidSets ==
    {K \in SUBSET [id : ChildIds, info : Payloads, layer : KidLayers] :
        \A a, b \in K : a.id = b.id => a = b}

\* A submitted nested tree (VideoTreeDTO) has a node part, the root node and
\* its children, and an info block.  A request's upload is fixed when the
\* call is made; the model draws each part at the step that first reads it
\* (info.creator at the check of line 60, the nodes at line 65, the rest of
\* the info block at line 68), which yields the same behaviours with fewer
\* states, since nothing else can observe the upload.
UploadNodes == [root : TreeIds, rootInfo : Payloads, kids : KidSets]

\* The data block a submission carries (a VideoTreeDTO has one): that of a
\* new tree, or counters of the client's own.
UploadData == {DefaultData, [views |-> 1, favorites |-> <<"u1">>]}

UploadInfos ==
    [title : Titles, status : Statuses, isEditing : BOOLEAN, data : UploadData]

\* The upload assembled from its parts.
Upload(un, ui, creator) ==
    [root |-> un.root, rootInfo |-> un.rootInfo, kids |-> un.kids,
     info |-> [title |-> ui.title, status |-> ui.status,
               isEditing |-> ui.isEditing, creator |-> creator],
     data |-> ui.data]

\* The ids of the stored nodes reachable from the ids in S by parentId.
RECURSIVE Reach(_, _)
Reach(ns, S) ==
    LET N == S \cup {n \in NodeIds : ns[n] # NoDoc /\ ns[n].parentId \in S}
    IN  IF N = S THEN S ELSE Reach(ns, N)

\* The stored node set of the tree whose root node is rootId.
NodesOfRoot(ns, rootId) ==
    IF ns[rootId] = NoDoc THEN {} ELSE Reach(ns, {rootId})

\* Flatten: the flat node documents of a submitted nested tree, parentId and
\* layer taken from each node's position.
Flatten(up, owner) ==
    [n \in {up.root} \cup {k.id : k \in up.kids} |->
        IF n = up.root
        THEN [parentId |-> NullId, layer |-> 0, info |-> up.rootInfo,
              creator |-> owner]
        ELSE [parentId |-> up.root, layer |-> 1,
              info |-> (CHOOSE k \in up.kids : k.id = n).info,
              creator |-> owner]]

\* validateNodes(root, 'info'): some node of the nested tree has no payload.
ValidateNodes(up) ==
    up.rootInfo = Empty \/ \E k \in up.kids : k.info = Empty

\* The layer every submitted node declares is the one of its position.
LayersConsistent(up) ==
    \A k \in up.kids : k.layer = Flatten(up, Anonymous)[k.id].layer

\* A slip in updateByTree: the declared layers are not looked at.
UpdateByTreeResultUnchecked(ns, up, editorId) ==
    IF ns[up.root] = NoDoc THEN "not_found"
    ELSE IF ns[up.root].creator # editorId THEN "forbidden"
    ELSE IF \E n \in DOMAIN Flatten(up, editorId) :
                n \notin NodesOfRoot(ns, up.root) /\ ns[n] # NoDoc
         THEN "error"
    ELSE "ok"

\* updateByTree(nestedTree, editorId), its outcome: not-found for an unknown
\* tree, an authorization error for a non-owner, a validation error for a
\* node whose declared layer is not its parent's layer + 1, an error when a
\* node to insert collides with a stored node of another tree.
UpdateByTreeResult(ns, up, editorId) ==
    IF ns[up.root] = NoDoc THEN "not_found"
    ELSE IF ns[up.root].creator # editorId THEN "forbidden"
    ELSE IF ~LayersConsistent(up) THEN "validation"
    ELSE IF \E n \in DOMAIN Flatten(up, editorId) :
                n \notin NodesOfRoot(ns, up.root) /\ ns[n] # NoDoc
         THEN "error"
    ELSE "ok"

\* updateByTree, its effect: submitted nodes are inserted or updated in
\* place, stored nodes of the tree absent from the submission are deleted,
\* all in one atomic batch.
UpdateByTree(ns, up, editorId) ==
    LET flat == Flatten(up, editorId)
        prev == NodesOfRoot(ns, up.root)
    IN  [n \in NodeIds |->
            IF n \in DOMAIN flat THEN flat[n]
            ELSE IF n \in prev THEN NoDoc
            ELSE ns[n]]

\* deleteByRoot(rootId, ownerId): deletes every node reachable from the root.
DeleteByRoot(ns, rootId, ownerId) ==
    LET gone == {n \in NodesOfRoot(ns, rootId) : ns[n].creator = ownerId}
    IN  [n \in NodeIds |-> IF n \in gone THEN NoDoc ELSE ns[n]]

\* The node part of a submission, and of what is stored under a root.
Shape(up) == [rootInfo |-> up.rootInfo, kids |-> up.kids]

StoredShape(ns, rootId) ==
    IF ns[rootId] = NoDoc THEN NoDoc
    ELSE [rootInfo |-> ns[rootId].info,
          kids |-> {[id |-> n, info |-> ns[n].info, layer |-> ns[n].layer] :
                        n \in NodesOfRoot(ns, rootId) \ {rootId}}]

----------------------------------------------------------------------------
(* update *)

\* update, line 60: the submitted creator must be the stored creator.
UpdateAllowed(uploadCreator, doc) == uploadCreator = doc.info.creator

\* A slip at line 70: the editor is stored as the creator.
NewInfoEditorAsCreator(up, docCreator, userId) ==
    [title |-> up.info.title,
     status |-> up.info.status,
     isEditing |-> IF up.info.title = Empty \/ ValidateNodes(up)
                   THEN TRUE ELSE up.info.isEditing,
     creator |-> userId]

\* update, lines 68-75: the info block that is saved.
NewInfo(up, docCreator, userId) ==
    [title |-> up.info.title,
     status |-> up.info.status,
     isEditing |-> IF up.info.title = Empty \/ ValidateNodes(up)
                   THEN TRUE ELSE up.info.isEditing,
     creator |-> docCreator]

\* videoTree.save() of update: the modified path, info, is written.
SaveInfo(doc, info) == [doc EXCEPT !.info = info]

\* update, up to the call of the node store: findById and the two checks.
UpdateFind(p, id, uploadCreator, userId) ==
    /\ Free(p)
    /\ calls < MaxCalls
    /\ calls' = calls + 1
    /\ procs' = [procs EXCEPT ![p] =
            IF trees[id] = NoDoc
            THEN Returned("update", id, userId, "not_found")
            ELSE IF ~UpdateAllowed(uploadCreator, trees[id])
            THEN Returned("update", id, userId, "forbidden")
            ELSE [Call("update_nodes", "update", id, userId, NoDoc,
                       trees[id].info.creator)
                     EXCEPT !.docData = trees[id].data]]
    /\ UNCHANGED <<trees, nodes, nextTree, history, aside>>

\* update, line 65: VideoNodeService.updateByTree(uploadTree, userId).
UpdateNodes(p, un) ==
    /\ procs[p].pc = "update_nodes"
    /\ LET res == UpdateByTreeResult(nodes, un, procs[p].user)
       IN  IF res = "ok"
           THEN /\ nodes' = UpdateByTree(nodes, un, procs[p].user)
                /\ procs' = [procs EXCEPT ![p].pc = "update_save",
                                          ![p].upload = un]
           ELSE /\ nodes' = nodes
                /\ procs' = Done(p, res)
    /\ UNCHANGED <<trees, nextTree, calls, history, aside>>

\* A slip at lines 68-71: the data block of the submission is stored with
\* its info block.
UpdateSaveWithData(p, ui) ==
    /\ procs[p].pc = "update_save"
    /\ LET id == procs[p].id
           up == Upload(procs[p].upload, ui, procs[p].docCreator)
       IN  IF trees[id] = NoDoc
           THEN /\ procs' = Done(p, "error")
                /\ UNCHANGED <<trees, infoNodes>>
           ELSE /\ trees' = [trees EXCEPT ![id] =
                        [SaveInfo(trees[id],
                                  NewInfo(up, procs[p].docCreator, procs[p].user))
                            EXCEPT !.data = up.data]]
                /\ infoNodes' = [infoNodes EXCEPT ![id] = Shape(up)]
                /\ procs' = IF procs[p].docData = trees[id].data
                            THEN Done(p, "ok")
                            ELSE DoneStale(p, "ok")
    /\ UNCHANGED <<nodes, nextTree, calls, createdBy, removed, incs, toggles, aside>>

\* update, lines 68-77: the info block is replaced and the document saved;
\* save() of a document that was deleted meanwhile throws.
UpdateSave(p, ui) ==
    /\ procs[p].pc = "update_save"
    /\ LET id == procs[p].id
           up == Upload(procs[p].upload, ui, procs[p].docCreator)
       IN  IF trees[id] = NoDoc
           THEN /\ procs' = Done(p, "error")
                /\ UNCHANGED <<trees, infoNodes>>
           ELSE /\ trees' = [trees EXCEPT ![id] =
                        SaveInfo(trees[id],
                                 NewInfo(up, procs[p].docCreator, procs[p].user))]
                /\ infoNodes' = [infoNodes EXCEPT ![id] = Shape(up)]
                /\ procs' = IF procs[p].docData = trees[id].data
                            THEN Done(p, "ok")
                            ELSE DoneStale(p, "ok")
    /\ UNCHANGED <<nodes, nextTree, calls, createdBy, removed, incs, toggles, aside>>

----------------------------------------------------------------------------
(* remove *)

\* A slip at line 90: the check of the requester is missing.
RemoveAllowedForAll(doc, userId) == TRUE

\* remove, line 90: only the creator may remove.
RemoveAllowed(doc, userId) == doc.info.creator = userId

\* remove, up to the call of the node store: findById and the two checks.
RemoveFind(p, id, userId) ==
    /\ Free(p)
    /\ calls < MaxCalls
    /\ calls' = calls + 1
    /\ procs' = [procs EXCEPT ![p] =
            IF trees[id] = NoDoc
            THEN Returned("remove", id, userId, "not_found")
            ELSE IF ~RemoveAllowed(trees[id], userId)
            THEN Returned("remove", id, userId, "forbidden")
            ELSE Call("remove_nodes", "remove", id, userId, NoDoc,
                      trees[id].info.creator)]
    /\ UNCHANGED <<trees, nodes, nextTree, history, aside>>

\* A slip at line 94: the nodes are left behind.
RemoveNodesSkipped(p) ==
    /\ procs[p].pc = "remove_nodes"
    /\ procs' = [procs EXCEPT ![p].pc = "remove_tree"]
    /\ UNCHANGED <<trees, nodes, nextTree, calls, history, aside>>

\* remove, line 94: VideoNodeService.deleteByRoot(video.root, userId).  The
\* root field of a tree document is the id the tree was created with.
RemoveNodes(p) ==
    /\ procs[p].pc = "remove_nodes"
    /\ nodes' = DeleteByRoot(nodes, procs[p].id, procs[p].user)
    /\ procs' = [procs EXCEPT ![p].pc = "remove_tree"]
    /\ UNCHANGED <<trees, nextTree, calls, history, aside>>

\* remove, line 96: video.remove().
RemoveTree(p) ==
    /\ procs[p].pc = "remove_tree"
    /\ trees' = [trees EXCEPT ![procs[p].id] = NoDoc]
    /\ removed' = removed \cup {procs[p].id}
    /\ procs' = Done(p, "ok")
    /\ UNCHANGED <<nodes, nextTree, calls, createdBy, incs, toggles, infoNodes, aside>>

----------------------------------------------------------------------------
(* deleteByCreator *)

\* VideoTreeModel.deleteMany({ 'info.creator': userId }), line 333.
DeleteMany(ts, userId) ==
    [t \in TreeIds |->
        IF ts[t] # NoDoc /\ ts[t].info.creator = userId THEN NoDoc ELSE ts[t]]

\* VideoNodeService.deleteByCreator(ownerId): removes every node owned by
\* ownerId.
NodesDeleteByCreator(ns, ownerId) ==
    [n \in NodeIds |->
        IF ns[n] # NoDoc /\ ns[n].creator = ownerId THEN NoDoc ELSE ns[n]]

\* The account of userId is in use: no deleteByCreator(userId) has been
\* called.
Active(userId) ==
    /\ userId \notin purged
    /\ \A p \in Procs :
          ~(procs[p].op = "deleteByCreator" /\ procs[p].user = userId)

\* deleteByCreator, up to its first await: the trees of userId are deleted.
DeleteByCreatorTrees(p, userId) ==
    /\ Free(p)
    /\ Active(userId)
    /\ calls < MaxCalls
    /\ calls' = calls + 1
    /\ trees' = DeleteMany(trees, userId)
    /\ procs' = [procs EXCEPT ![p] =
                    Call("purge_nodes", "deleteByCreator", 0, userId, NoDoc,
                         Anonymous)]
    /\ UNCHANGED <<nodes, nextTree, history, aside>>

\* deleteByCreator, the rest: the nodes of userId are deleted.
DeleteByCreatorNodes(p) ==
    /\ procs[p].pc = "purge_nodes"
    /\ nodes' = NodesDeleteByCreator(nodes, procs[p].user)
    /\ purged' = purged \cup {procs[p].user}
    /\ procs' = Done(p, "ok")
    /\ UNCHANGED <<trees, nextTree, calls, createdBy, removed, incs, toggles,
                   infoNodes, histories, reports, query>>

----------------------------------------------------------------------------
(* updateFavorites, incrementViews *)

\* The arrays holding each element of the set S once, in any order.
Arrays(S) ==
    {a \in [1 .. Cardinality(S) -> S] : \A e \in S : \E i \in DOMAIN a : a[i] = e}

\* A slip at lines 313-319: the array is rebuilt from the caller alone, as a
\* write of a value computed from a stale read would.
ToggleFavoritesOverwrite(favorites, userId) ==
    IF userId \in Range(favorites) THEN {<<>>} ELSE {<<userId>>}

\* A slip at lines 314-318: the viewer is appended whether present or not.
ToggleFavoritesAppend(favorites, userId) == {Append(favorites, userId)}

\* updateFavorites, lines 313-319: the new value of data.favorites.
\* $setDifference yields the remaining elements without duplicates in an
\* unspecified order, $concatArrays appends.
ToggleFavorites(favorites, userId) ==
    IF userId \in Range(favorites)
    THEN Arrays(Range(favorites) \ {userId})
    ELSE {Append(favorites, userId)}

\* updateFavorites: one updateOne with an aggregation pipeline; a filter that
\* matches no document updates nothing.
UpdateFavorites(id, userId) ==
    /\ calls < MaxCalls
    /\ calls' = calls + 1
    /\ IF trees[id] = NoDoc
       THEN UNCHANGED <<trees, toggles>>
       ELSE /\ \E favs \in ToggleFavorites(trees[id].data.favorites, userId) :
                 trees' = [trees EXCEPT ![id].data.favorites = favs]
            /\ toggles' = [toggles EXCEPT ![id][userId] = @ + 1]
    /\ UNCHANGED <<nodes, nextTree, procs, createdBy, removed, incs, infoNodes, aside>>

\* A slip at line 328: $set in place of $inc.
IncViewsSet(views) == 1

\* incrementViews, line 328: { $inc: { 'data.views': 1 } }.
IncViews(views) == views + 1

\* incrementViews: one updateOne.
IncrementViews(id) ==
    /\ calls < MaxCalls
    /\ calls' = calls + 1
    /\ IF trees[id] = NoDoc
       THEN UNCHANGED <<trees, incs>>
       ELSE /\ trees' = [trees EXCEPT ![id].data.views = IncViews(@)]
            /\ incs' = [incs EXCEPT ![id] = @ + 1]
    /\ UNCHANGED <<nodes, nextTree, procs, createdBy, removed, toggles, infoNodes, aside>>

----------------------------------------------------------------------------
(* The Tree Builder *)

\* A flat node set handed to the Tree Builder is indexed by id: a function
\* from the ids supplied to node records.  A parentId is null, a supplied
\* or unsupplied id of FlatIds, or an id that no node has.
FlatIds == 1 .. MaxNodes
NoSuchId == MaxNodes + 1
ParentIds == {NullId} \cup FlatIds \cup {NoSuchId}
Layers == {0, 1, 2}
\* The builder does not read the payloads; every other node carries one.
InfoOf(n) == IF n % 2 = 1 THEN "video" ELSE Empty
\* A node with null parent is stored by createRoot alone, with layer 0.
FlatShapes ==
    {X \in UNION {[S -> [parentId : ParentIds, layer : Layers]] :
                    S \in SUBSET FlatIds} :
        \A n \in DOMAIN X : X[n].parentId = NullId => X[n].layer = 0}
FlatSets ==
    {[n \in DOMAIN X |->
        [parentId |-> X[n].parentId, layer |-> X[n].layer, info |-> InfoOf(n)]] :
     X \in FlatShapes}

\* The group index: the ids of the nodes whose parentId is pid.
Group(X, pid) == {n \in DOMAIN X : X[n].parentId = pid}

\* The ids of S in the order in which the nodes were supplied (by id).
InOrder(S) ==
    [i \in 1 .. Cardinality(S) |->
        CHOOSE n \in S : Cardinality({m \in S : m < n}) = i - 1]

\* The ids placed in the tree by the descent from the ids in S.
RECURSIVE Placed(_, _)
Placed(X, S) ==
    LET N == S \cup {n \in DOMAIN X : X[n].parentId \in S}
    IN  IF N = S THEN S ELSE Placed(X, N)

\* A slip in buildTree: the children are attached, theirs are not.
AttachOneLevel(X, n) ==
    [id |-> n, parentId |-> X[n].parentId, layer |-> X[n].layer,
     info |-> X[n].info,
     children |-> [i \in 1 .. Cardinality(Group(X, n)) |->
                      [id |-> InOrder(Group(X, n))[i],
                       parentId |-> n,
                       layer |-> X[InOrder(Group(X, n))[i]].layer,
                       info |-> X[InOrder(Group(X, n))[i]].info,
                       children |-> <<>>]]]

\* The nested node of id n: the record of n with its children attached,
\* each looked up in the group index and nested in turn.
RECURSIVE Attach(_, _)
Attach(X, n) ==
    [id |-> n, parentId |-> X[n].parentId, layer |-> X[n].layer,
     info |-> X[n].info,
     children |-> [i \in 1 .. Cardinality(Group(X, n)) |->
                      Attach(X, InOrder(Group(X, n))[i])]]

Failure(kind) == [kind |-> kind]

\* buildTree(nodes), how it ends: "ok", or the kind of structural error.
\* No descent from the root meets a node twice, so a cycle shows as nodes
\* that the descent has not placed.
BuildKind(X) ==
    LET roots == Group(X, NullId)
    IN  IF roots = {} THEN "no_root"
        ELSE IF Cardinality(roots) > 1 THEN "multiple_roots"
        ELSE IF \E n \in DOMAIN X :
                    X[n].parentId # NullId /\ X[n].parentId \notin DOMAIN X
             THEN "dangling"
        ELSE IF Placed(X, roots) # DOMAIN X THEN "cycle"
        ELSE "ok"

\* buildTree(nodes): the nested tree, or the structural error.
Build(X) ==
    IF BuildKind(X) = "ok"
    THEN [kind |-> "ok",
          root |-> Attach(X, CHOOSE r \in Group(X, NullId) : TRUE)]
    ELSE Failure(BuildKind(X))

RECURSIVE Concat(_)
Concat(ss) == IF ss = <<>> THEN <<>> ELSE Head(ss) \o Concat(Tail(ss))

\* A slip in flatten: the layer of a child is the layer of its parent.
RECURSIVE FlattenTreeSameLayer(_, _, _)
FlattenTreeSameLayer(node, parentId, layer) ==
    <<[id |-> node.id, parentId |-> parentId, layer |-> layer,
       info |-> node.info]>>
    \o Concat([i \in DOMAIN node.children |->
                  FlattenTreeSameLayer(node.children[i], node.id, layer)])

\* flatten of a nested node at a position: the flat records of the node and
\* of the nodes under it, parentId and layer taken from the position.
RECURSIVE FlattenTree(_, _, _)
FlattenTree(node, parentId, layer) ==
    <<[id |-> node.id, parentId |-> parentId, layer |-> layer,
       info |-> node.info]>>
    \o Concat([i \in DOMAIN node.children |->
                  FlattenTree(node.children[i], node.id, layer + 1)])

----------------------------------------------------------------------------
(* findClientOne *)

Viewers == Users \cup {Anonymous}

\* allNodesPipe: the node set joined to a tree document, the root node and
\* the nodes under it.
AllNodes(ns, rootId) == NodesOfRoot(ns, rootId)

\* buildTree on the stored nodes of ids S: "ok", or the kind of structural
\* error.
BuildTree(ns, S) ==
    BuildKind([n \in S |-> [parentId |-> ns[n].parentId,
                            layer |-> ns[n].layer, info |-> ns[n].info]])

\* A slip at lines 148-153: only the anonymous viewer is refused.
VisibleToSignedIn(info, userId) ==
    ~(info.status = "private" /\ userId = Anonymous)

\* findClientOne, lines 148-153: a private tree is shown to its creator only.
Visible(info, userId) ==
    ~(info.status = "private" /\ info.creator # userId)

\* findClientOne(id, userId), its outcome on the stored trees ts and nodes
\* ns: the aggregate, then buildTree, then the visibility check.
FindClientOne(ts, ns, id, userId) ==
    IF ts[id] = NoDoc THEN "not_found"
    ELSE IF BuildTree(ns, AllNodes(ns, ts[id].root)) # "ok"
         THEN BuildTree(ns, AllNodes(ns, ts[id].root))
    ELSE IF ~Visible(ts[id].info, userId) THEN "forbidden"
    ELSE "ok"

----------------------------------------------------------------------------
(* find *)

Min(a, b) == IF a < b THEN a ELSE b

\* A slip at line 192: the pages are counted from 0.
SkipFromZero(page, max) == max * page

\* find, line 192: { $skip: +max * (+page - 1) }.  page and max arrive as
\* numbers or as numeric strings, which unary + turns into their value.
Skip(page, max) == max * (page - 1)

\* find, lines 191-193: the videos branch of $facet on the matching
\* documents, sorted: $skip, then $limit.
Paginate(sorted, page, max) ==
    SubSeq(sorted, Skip(page, max) + 1,
           Min(Skip(page, max) + max, Len(sorted)))

\* find, lines 188-201: $facet yields one document with both branches;
\* $count emits no document when nothing matches.
Facet(sorted, page, max) ==
    [videos |-> Paginate(sorted, page, max),
     totalCount |-> IF Len(sorted) = 0 THEN <<>>
                    ELSE <<[count |-> Len(sorted)]>>]

\* find, line 202: { $unwind: '$totalCount' } yields one document for each
\* element of totalCount.
Unwind(facet) ==
    [i \in 1 .. Len(facet.totalCount) |->
        [videos |-> facet.videos, totalCount |-> facet.totalCount[i]]]

\* find, lines 186-208, on the documents that match, in sorted order.
Find(sorted, page, max) ==
    LET result == Unwind(Facet(sorted, page, max))
    IN  [videos |-> IF Len(result) # 0 THEN result[1].videos ELSE <<>>,
         count |-> IF Len(result) # 0 THEN result[1].totalCount.count ELSE 0]

\* { ...a, ...b }: the keys of b override those of a.
Spread(a, b) ==
    [k \in DOMAIN a \cup DOMAIN b |-> IF k \in DOMAIN b THEN b[k] ELSE a[k]]

\* The empty match object {}.
NoMatch == <<>>

\* $match: tree document doc, of id t, satisfies every key of the match
\* object.  The keys are 'info.status', 'info.isEditing', 'info.creator',
\* _id with $in, $text with $search (a tree is found by its title) and
\* $expr with $in on data.favorites.
Matches(doc, t, match) ==
    \A k \in DOMAIN match :
        CASE k = "status" -> doc.info.status = match[k]
          [] k = "isEditing" -> doc.info.isEditing = match[k]
          [] k = "creator" -> doc.info.creator = match[k]
          [] k = "_id" -> t \in match[k]
          [] k = "text" -> doc.info.title = match[k]
          [] k = "favorites" -> match[k] \in Range(doc.data.favorites)

\* The ids of the stored trees that satisfy the match object.
Matching(ts, match) ==
    {t \in TreeIds : ts[t] # NoDoc /\ Matches(ts[t], t, match)}

\* $sort: with no sort given the order is { _id: -1 }, the latest id first;
\* the order by updatedAt or by text score depends on what the model does
\* not hold, so every order is possible.
Sorted(S, sort) ==
    IF sort = "_id"
    THEN {[i \in 1 .. Cardinality(S) |->
             CHOOSE t \in S : Cardinality({x \in S : x > t}) = i - 1]}
    ELSE Arrays(S)

\* find({ match, sort, page, max }) on the stored trees: the answers it may
\* give.
FindTrees(ts, match, sort, page, max) ==
    {Find(sorted, page, max) : sorted \in Sorted(Matching(ts, match), sort)}

\* findByCreator, lines 211-222.
FindByCreator(ts, creatorId, page, max) ==
    FindTrees(ts, [creator |-> creatorId], "_id", page, max)

\* A slip at lines 239-240: the filter on isEditing is missing.
ClientFilterPublicOnly == [status |-> "public"]

\* findClient, lines 239-240: what every client listing filters on.
ClientFilter == [status |-> "public", isEditing |-> FALSE]

\* findClient, lines 224-248: the caller's match is spread over the filter.
FindClient(ts, match, sort, page, max) ==
    FindTrees(ts, Spread(ClientFilter, match), sort, page, max)

\* findClientByFeatured, lines 250-258.
FindClientByFeatured(ts, page, max) ==
    FindClient(ts, NoMatch, "updatedAt", page, max)

\* findClientByKeyword, lines 260-271.
FindClientByKeyword(ts, search, page, max) ==
    FindClient(ts, [text |-> search], "textScore", page, max)

\* findClientByChannel, lines 273-283.
FindClientByChannel(ts, channelId, page, max) ==
    FindClient(ts, [creator |-> channelId], "_id", page, max)

\* findClientByIds, lines 285-295: page 1, max the number of ids.
FindClientByIds(ts, ids) ==
    FindClient(ts, [_id |-> ids], "_id", 1, Cardinality(ids))

\* findClientByFavorites, lines 297-306.
FindClientByFavorites(ts, id, page, max) ==
    FindClient(ts, [favorites |-> id], "_id", page, max)

\* The page numbers and page sizes of the listings of the stored trees.
Pages == {1, 2}
Sizes == {1, 2}
\* The id lists of findClientByIds ($limit needs a positive number).
IdLists == SUBSET TreeIds \ {{}}

\* The answers of every client listing on the stored trees, each with the
\* trees its caller asked for.
ClientListings(ts) ==
    UNION {
        {[answer |-> a, asked |-> TreeIds] :
            a \in UNION {FindClientByFeatured(ts, pg, mx) :
                            pg \in Pages, mx \in Sizes}},
        {[answer |-> a, asked |-> Matching(ts, [text |-> "title"])] :
            a \in UNION {FindClientByKeyword(ts, "title", pg, mx) :
                            pg \in Pages, mx \in Sizes}},
        UNION {{[answer |-> a, asked |-> Matching(ts, [creator |-> u])] :
                    a \in UNION {FindClientByChannel(ts, u, pg, mx) :
                                    pg \in Pages, mx \in Sizes}} :
               u \in Users},
        UNION {{[answer |-> a, asked |-> ids] :
                    a \in FindClientByIds(ts, ids)} : ids \in IdLists},
        UNION {{[answer |-> a, asked |-> Matching(ts, [favorites |-> u])] :
                    a \in UNION {FindClientByFavorites(ts, u, pg, mx) :
                                    pg \in Pages, mx \in Sizes}} :
               u \in Users}}

\* The k-th document of a sorted population of m matching documents.
SortedDocs(m) == [k \in 1 .. m |-> k]

\* A listing call over m matching documents.
Listings == [m : 0 .. MaxDocs, page : 1 .. MaxPage, max : 1 .. MaxSize]

ListingInit ==
    /\ StoreInit
    /\ HistoryInit
    /\ \E l \in Listings :
          query = [m |-> l.m, page |-> l.page, max |-> l.max, answer |-> NoDoc]

\* The listing is answered.
RunFind ==
    /\ query.answer = NoDoc
    /\ query' = [query EXCEPT
                    !.answer = Find(SortedDocs(query.m), query.page, query.max)]
    /\ UNCHANGED <<trees, nodes, nextTree, procs, calls, history, purged,
                   histories, reports>>

NextListing == RunFind

SpecListing == ListingInit /\ [][NextListing]_vars

----------------------------------------------------------------------------
(* findOne *)

\* A slip at lines 115-119: the error of buildTree is caught and a tree
\* without nodes is returned.
FindOneCaught(result) ==
    IF Len(result) = 0 THEN Failure("not_found")
    ELSE IF Build(result[1]).kind # "ok"
         THEN [kind |-> "ok",
               root |-> [id |-> NullId, parentId |-> NullId, layer |-> 0,
                         info |-> Empty, children |-> <<>>]]
    ELSE Build(result[1])

\* findOne, lines 106-122, on the result of the aggregate (a sequence of
\* tree documents, each with its flat node set): not-found for an empty
\* result, else buildTree on the node list, whose error is not caught.
FindOne(result) ==
    IF Len(result) = 0 THEN Failure("not_found")
    ELSE Build(result[1])

BuilderInit ==
    /\ StoreInit
    /\ HistoryInit
    /\ \E X \in FlatSets :
          query = [step |-> "asked", flat |-> X, answer |-> NoDoc,
                   flattened |-> <<>>]

\* findOne is called on a tree whose flat node set is query.flat.
RunFindOne ==
    /\ query.step = "asked"
    /\ query' = [query EXCEPT !.step = "answered",
                              !.answer = FindOne(<<query.flat>>)]
    /\ UNCHANGED <<trees, nodes, nextTree, procs, calls, history, purged,
                   histories, reports>>

\* The nested tree that was returned is flattened.
RunFlatten ==
    /\ query.step = "answered"
    /\ query.answer.kind = "ok"
    /\ query' = [query EXCEPT
                    !.step = "flattened",
                    !.flattened = FlattenTree(query.answer.root, NullId, 0)]
    /\ UNCHANGED <<trees, nodes, nextTree, procs, calls, history, purged,
                   histories, reports>>

NextBuilder == RunFindOne \/ RunFlatten

SpecBuilder == BuilderInit /\ [][NextBuilder]_vars

----------------------------------------------------------------------------
(* The History tracker *)

\* The progress a viewer reports.
Progresses == {1, 2}

\* A History document (HistorySchema): the viewer, the tree and the position
\* reached.
NewHistory(userId, treeId, progress) ==
    [user |-> userId, tree |-> treeId, progress |-> progress]

\* HistoryModel, lines 18-30: the schema declares no unique index, so a
\* document is stored whatever the collection holds.
InsertHistory(hs, doc) == Append(hs, doc)

\* The position in the collection of the first History document of the
\* viewer for the tree, 0 when there is none.
FindHistory(hs, userId, treeId) ==
    IF \E i \in DOMAIN hs : hs[i].user = userId /\ hs[i].tree = treeId
    THEN CHOOSE i \in DOMAIN hs :
            /\ hs[i].user = userId /\ hs[i].tree = treeId
            /\ \A j \in DOMAIN hs :
                  (hs[j].user = userId /\ hs[j].tree = treeId) => i <= j
    ELSE 0

\* upsertProgress, its read: the record of the pair is looked up.
UpsertFind(p, userId, treeId, progress) ==
    /\ reports[p] = NoDoc
    /\ calls < MaxCalls
    /\ calls' = calls + 1
    /\ reports' = [reports EXCEPT ![p] =
            [user |-> userId, tree |-> treeId, progress |-> progress,
             found |-> FindHistory(histories, userId, treeId)]]
    /\ UNCHANGED <<trees, nodes, nextTree, procs, history, purged, histories,
                   query>>

\* upsertProgress, its write: the record that was found is updated in
\* place; when none was found a record is created.
UpsertWrite(p) ==
    /\ reports[p] # NoDoc
    /\ histories' =
          IF reports[p].found = 0
          THEN InsertHistory(histories,
                   NewHistory(reports[p].user, reports[p].tree,
                              reports[p].progress))
          ELSE [histories EXCEPT ![reports[p].found].progress =
                                    reports[p].progress]
    /\ reports' = [reports EXCEPT ![p] = NoDoc]
    /\ UNCHANGED <<trees, nodes, nextTree, procs, calls, history, purged,
                   query>>

NextHistory ==
    \/ \E p \in Procs, u \in Users, t \in TreeIds, g \in Progresses :
          UpsertFind(p, u, t, g)
    \/ \E p \in Procs : UpsertWrite(p)

SpecHistory == Init /\ [][NextHistory]_vars

----------------------------------------------------------------------------
Next ==
    \/ \E p \in Procs, u \in Users : CreateRoot(p, u)
    \/ \E p \in Procs : CreateSave(p)
    \/ \E p \in Procs, id \in TreeIds, c \in Users, u \in Users :
          UpdateFind(p, id, c, u)
    \/ \E p \in Procs, un \in UploadNodes : UpdateNodes(p, un)
    \/ \E p \in Procs, ui \in UploadInfos : UpdateSave(p, ui)
    \/ \E p \in Procs, id \in TreeIds, u \in Users : RemoveFind(p, id, u)
    \/ \E p \in Procs : RemoveNodes(p)
    \/ \E p \in Procs : RemoveTree(p)
    \/ \E id \in TreeIds, u \in Users : UpdateFavorites(id, u)
    \/ \E id \in TreeIds : IncrementViews(id)

Spec == Init /\ [][Next]_vars

\* update, line 65, for an upload whose root is the root of tree id.
UpdateOwnNodes(p, un) ==
    /\ un.root = procs[p].id
    /\ UpdateNodes(p, un)

\* The same requests from clients that submit, with every update, the nodes
\* of the tree they name.
NextOwnRoot ==
    \/ \E p \in Procs, u \in Users : CreateRoot(p, u)
    \/ \E p \in Procs : CreateSave(p)
    \/ \E p \in Procs, id \in TreeIds, c \in Users, u \in Users :
          UpdateFind(p, id, c, u)
    \/ \E p \in Procs, un \in UploadNodes : UpdateOwnNodes(p, un)
    \/ \E p \in Procs, ui \in UploadInfos : UpdateSave(p, ui)
    \/ \E p \in Procs, id \in TreeIds, u \in Users : RemoveFind(p, id, u)
    \/ \E p \in Procs : RemoveNodes(p)
    \/ \E p \in Procs : RemoveTree(p)
    \/ \E id \in TreeIds, u \in Users : UpdateFavorites(id, u)
    \/ \E id \in TreeIds : IncrementViews(id)

SpecOwnRoot == Init /\ [][NextOwnRoot]_vars

\* The same requests made one after the other: a single request is in
\* flight at any time.  The answers of the read handlers depend on the
\* stored documents alone.
NextSerial ==
    \/ \E u \in Users : CreateRoot("p1", u)
    \/ CreateSave("p1")
    \/ \E id \in TreeIds, c \in Users, u \in Users : UpdateFind("p1", id, c, u)
    \/ \E un \in UploadNodes : UpdateNodes("p1", un)
    \/ \E ui \in UploadInfos : UpdateSave("p1", ui)
    \/ \E id \in TreeIds, u \in Users : RemoveFind("p1", id, u)
    \/ RemoveNodes("p1")
    \/ RemoveTree("p1")
    \/ \E id \in TreeIds, u \in Users : UpdateFavorites(id, u)
    \/ \E id \in TreeIds : IncrementViews(id)

SpecSerial == Init /\ [][NextSerial]_vars

\* create, update and remove called on behalf of an account in use.
CreateByActive(p, userId) ==
    /\ Active(userId)
    /\ CreateRoot(p, userId)

UpdateByActive(p, id, uploadCreator, userId) ==
    /\ Active(userId)
    /\ UpdateFind(p, id, uploadCreator, userId)

RemoveByActive(p, id, userId) ==
    /\ Active(userId)
    /\ RemoveFind(p, id, userId)

\* Accounts are deleted while requests of their owners are in flight; once
\* deleteByCreator(userId) has been called, userId starts no further request.
NextCascade ==
    \/ \E p \in Procs, u \in Users : CreateByActive(p, u)
    \/ \E p \in Procs : CreateSave(p)
    \/ \E p \in Procs, id \in TreeIds, c \in Users, u \in Users :
          UpdateByActive(p, id, c, u)
    \/ \E p \in Procs, un \in UploadNodes : UpdateOwnNodes(p, un)
    \/ \E p \in Procs, ui \in UploadInfos : UpdateSave(p, ui)
    \/ \E p \in Procs, id \in TreeIds, u \in Users : RemoveByActive(p, id, u)
    \/ \E p \in Procs : RemoveNodes(p)
    \/ \E p \in Procs : RemoveTree(p)
    \/ \E p \in Procs, u \in Users : DeleteByCreatorTrees(p, u)
    \/ \E p \in Procs : DeleteByCreatorNodes(p)

SpecCascade == Init /\ [][NextCascade]_vars

----------------------------------------------------------------------------
(* Properties *)

Stored(t) == trees[t] # NoDoc

\* C1: an update by an editor who is not the stored creator of the tree
\* fails with forbidden and changes neither the tree nor its nodes.  Stated
\* here in the weaker form that such an update, of a tree that is stored
\* throughout the call, never returns successfully (a successful update has
\* replaced the info block of the tree).
C1_NonCreatorUpdateFails ==
    \A p \in Procs :
        (/\ procs[p].pc = "done"
         /\ procs[p].op = "update"
         /\ Stored(procs[p].id)
         /\ procs[p].user # trees[procs[p].id].info.creator)
        => procs[p].result # "ok"

\* C2: the creator of every stored tree is the owner passed to the create
\* call that made it.
C2_CreatorImmutable ==
    \A t \in TreeIds : Stored(t) => trees[t].info.creator = createdBy[t]

\* C2, its case: an update has succeeded for an editor other than the
\* creator, and the creator is still the one who created the tree.
C2_Witness ==
    \E p \in Procs :
        /\ procs[p].pc = "done" /\ procs[p].op = "update"
        /\ procs[p].result = "ok"
        /\ Stored(procs[p].id)
        /\ procs[p].user # createdBy[procs[p].id]
        /\ trees[procs[p].id].info.creator = createdBy[procs[p].id]

\* The tree has a title and every one of its stored nodes has a payload.
Complete(t) ==
    /\ trees[t].info.title # Empty
    /\ \A n \in NodesOfRoot(nodes, trees[t].root) : nodes[n].info # Empty

\* C3: a stored tree has isEditing = false only if it has a title and every
\* one of its nodes has a payload (stated for the states in which no
\* request is in flight).
C3_IsEditingUnlessComplete ==
    Quiescent =>
        \A t \in TreeIds :
            (Stored(t) /\ ~trees[t].info.isEditing) => Complete(t)

\* C4: findClientOne on a private tree fails with forbidden for every viewer
\* other than the creator, the anonymous viewer included, and succeeds for
\* the creator.
C4_PrivateOnlyForCreator ==
    \A t \in TreeIds, v \in Viewers :
        (Stored(t) /\ trees[t].info.status = "private") =>
            FindClientOne(trees, nodes, t, v) =
                IF v = trees[t].info.creator THEN "ok" ELSE "forbidden"

\* The node set of the tree can be assembled into a nested tree.
Readable(t) == BuildTree(nodes, AllNodes(nodes, trees[t].root)) = "ok"

\* C4 as amended: the same, for a private tree whose node set can be
\* assembled; and whatever the node set, no viewer other than the creator
\* is given a private tree.
C4_PrivateOnlyForCreatorReadable ==
    \A t \in TreeIds, v \in Viewers :
        (Stored(t) /\ trees[t].info.status = "private") =>
            /\ Readable(t) =>
                 FindClientOne(trees, nodes, t, v) =
                     IF v = trees[t].info.creator THEN "ok" ELSE "forbidden"
            /\ v # trees[t].info.creator =>
                 FindClientOne(trees, nodes, t, v) # "ok"

\* C4, its case: a private tree that its creator is given and that the
\* other viewers, the anonymous one included, are refused.
C4_Witness ==
    \E t \in TreeIds :
        /\ Stored(t) /\ trees[t].info.status = "private"
        /\ FindClientOne(trees, nodes, t, trees[t].info.creator) = "ok"
        /\ FindClientOne(trees, nodes, t, Anonymous) = "forbidden"
        /\ \E u \in Users : FindClientOne(trees, nodes, t, u) = "forbidden"

\* Request p starts a remove call in this step.
RemoveStarts(p) ==
    /\ Free(p)
    /\ procs'[p] # procs[p]
    /\ procs'[p].op = "remove"

\* C5: remove fails with not-found when the tree does not exist and with
\* forbidden when the requester is not its creator, and a remove that fails
\* deletes no tree document and no node.
C5_RemoveFailures ==
    [][\A p \in Procs :
        RemoveStarts(p) =>
            LET id == procs'[p].id
                res == procs'[p].result
            IN  /\ ~Stored(id) => res = "not_found"
                /\ (Stored(id) /\ trees[id].info.creator # procs'[p].user)
                      => res = "forbidden"
                /\ (~Stored(id) \/ trees[id].info.creator # procs'[p].user)
                      => /\ procs'[p].pc = "done"
                         /\ trees' = trees
                         /\ nodes' = nodes]_vars

\* C5, its case: a remove by a requester who is not the creator has
\* returned forbidden, and the tree and its root node are still stored.
C5_Witness ==
    \E p \in Procs :
        /\ procs[p].pc = "done" /\ procs[p].op = "remove"
        /\ procs[p].result = "forbidden"
        /\ Stored(procs[p].id)
        /\ procs[p].user # trees[procs[p].id].info.creator
        /\ nodes[trees[procs[p].id].root] # NoDoc

\* No stored node is the root node rootId or has it as its parent.
NoNodesUnder(ns, rootId) ==
    \A n \in NodeIds :
        ns[n] # NoDoc => (n # rootId /\ ns[n].parentId # rootId)

\* C6: once remove has returned successfully the tree document is gone and
\* no node of the tree is stored; the nodes are deleted before the tree
\* document is.
C6_RemoveCascades ==
    [][\A t \in TreeIds :
        /\ (Stored(t) /\ trees'[t] = NoDoc) => NoNodesUnder(nodes, t)
        /\ t \in removed' => (trees'[t] = NoDoc /\ NoNodesUnder(nodes', t))]_vars

\* C6, its case: a tree whose last submission had a child node has been
\* removed by its creator.
C6_Witness ==
    \E p \in Procs :
        /\ procs[p].pc = "done" /\ procs[p].op = "remove"
        /\ procs[p].result = "ok"
        /\ procs[p].id \in removed
        /\ infoNodes[procs[p].id] # NoDoc
        /\ infoNodes[procs[p].id].kids # {}

\* C7: the views of a stored tree are the number of incrementViews calls
\* made on it, whatever other requests ran in between, and never decrease.
C7_ViewsCountIncrements ==
    [][\A t \in TreeIds :
        trees'[t] # NoDoc =>
            /\ trees'[t].data.views = incs'[t]
            /\ Stored(t) => trees'[t].data.views >= trees[t].data.views]_vars

\* C7, its case: two incrementViews calls have been applied to a tree.
C7_Witness ==
    \E t \in TreeIds : Stored(t) /\ incs[t] = 2 /\ trees[t].data.views = 2

\* C8: a viewer is in the favorites of a stored tree exactly when the number
\* of that viewer's updateFavorites calls on the tree is odd.
C8_NoToggleLost ==
    \A t \in TreeIds, u \in Users :
        Stored(t) =>
            (u \in Range(trees[t].data.favorites) <=> toggles[t][u] % 2 = 1)

\* C8, its case: two viewers have each toggled the same tree.
C8_Witness ==
    \E t \in TreeIds :
        /\ Stored(t)
        /\ \A u \in Users : toggles[t][u] = 1
        /\ Range(trees[t].data.favorites) = Users

\* Viewer u toggles tree t in this step.
Toggles(t, u) == toggles'[t][u] = toggles[t][u] + 1

\* C9: one updateFavorites call adds the viewer to the favorites if absent
\* and removes the viewer if present, and a second call right after it
\* gives back the set of favorites there was before the first.
C9_ToggleTwiceRestores ==
    [][\A t \in TreeIds, u \in Users :
        Toggles(t, u) =>
            LET before == Range(trees[t].data.favorites)
                after == Range(trees'[t].data.favorites)
            IN  /\ after = IF u \in before THEN before \ {u}
                                           ELSE before \cup {u}
                /\ \A favs \in ToggleFavorites(trees'[t].data.favorites, u) :
                      Range(favs) = before]_vars

\* C9, its case: a viewer has toggled a tree twice and is not in its
\* favorites.
C9_Witness ==
    \E t \in TreeIds, u \in Users :
        /\ Stored(t)
        /\ toggles[t][u] = 2
        /\ u \notin Range(trees[t].data.favorites)

\* The stored node set of tree t is a rooted tree whose nodes are the ones
\* submitted with the metadata that is stored.
Consistent(t) ==
    /\ BuildTree(nodes, AllNodes(nodes, trees[t].root)) = "ok"
    /\ StoredShape(nodes, trees[t].root) = infoNodes[t]

\* C10: whatever way update calls on one tree interleave, once they have
\* returned the stored nodes form a tree with one root and no dangling
\* parent, and the tree metadata and the nodes come from the same submission.
C10_UpdatesSerialize ==
    Quiescent => \A t \in TreeIds : Stored(t) => Consistent(t)

\* Node n belongs to a stored tree.
Owned(n) ==
    \E t \in TreeIds : Stored(t) /\ n \in NodesOfRoot(nodes, trees[t].root)

\* C11: once the cascades have completed and the requests that ran beside
\* them have returned, every stored node belongs to a stored tree, and no
\* tree and no node of an owner whose account was deleted is stored.
C11_CascadeLeavesNothing ==
    Quiescent =>
        /\ \A n \in NodeIds : nodes[n] # NoDoc => Owned(n)
        /\ \A u \in purged :
              /\ \A t \in TreeIds : Stored(t) => trees[t].info.creator # u
              /\ \A n \in NodeIds : nodes[n] # NoDoc => nodes[n].creator # u

\* The stored node set of tree t is a well-formed tree: its root field names
\* a stored node with null parent and layer 0, the only such node of the
\* set, and every other node of the set has its parent in the set, one
\* layer above it.
WellFormed(t) ==
    LET S == AllNodes(nodes, trees[t].root)
    IN  /\ trees[t].root \in S
        /\ \A n \in S :
              IF n = trees[t].root
              THEN nodes[n].parentId = NullId /\ nodes[n].layer = 0
              ELSE /\ nodes[n].parentId \in S
                   /\ nodes[n].layer = nodes[nodes[n].parentId].layer + 1
        /\ BuildTree(nodes, S) = "ok"

C13_RootAtomicWithTree ==
    \A n \in NodeIds :
        (nodes[n] # NoDoc /\ nodes[n].parentId = NullId) =>
            \E t \in TreeIds : Stored(t) /\ trees[t].root = n

Max(a, b) == IF a > b THEN a ELSE b

\* C14: a listing over M matching documents, for page p >= 1 and page size
\* max >= 1, reports count M and returns min(max, max(0, M - max*(p-1)))
\* videos, the documents at positions max*(p-1)+1 .. max*p of the sorted
\* population; with M = 0 it returns no videos and count 0.
C14_PageOfListing ==
    query # NoDoc /\ query.answer # NoDoc =>
        LET M == query.m
            p == query.page
            max == query.max
            videos == query.answer.videos
        IN  /\ query.answer.count = M
            /\ Len(videos) = Min(max, Max(0, M - max * (p - 1)))
            /\ \A i \in 1 .. Len(videos) :
                  videos[i] = SortedDocs(M)[max * (p - 1) + i]
            /\ M = 0 => videos = <<>>

\* C14, its case: 25 matching documents and page size 10 gave 5 videos on
\* page 3, the documents 21 to 25, and count 25.
C14_Witness ==
    /\ query # NoDoc
    /\ query.m = 25 /\ query.max = 10 /\ query.page = 3
    /\ query.answer # NoDoc
    /\ query.answer.count = 25
    /\ query.answer.videos = <<21, 22, 23, 24, 25>>

\* Tree t is stored, public and not being edited.
Listed(t) ==
    Stored(t) /\ trees[t].info.status = "public" /\ ~trees[t].info.isEditing

\* C15: every tree returned by a client listing (featured, keyword,
\* channel, ids, favorites) is public and not being edited, and the count
\* the listing reports is the number of such trees among those asked for;
\* trees that are private or being edited come from findByCreator only.
C15_ClientListingsPublic ==
    \A l \in ClientListings(trees) :
        /\ \A t \in Range(l.answer.videos) : Listed(t)
        /\ l.answer.count = Cardinality({t \in l.asked : Listed(t)})

\* C15, its case: a listed tree and an unlisted one are stored; the client
\* listing returns the first alone, and findByCreator returns the second
\* to its creator.
C15_Witness ==
    \E t1, t2 \in TreeIds :
        /\ Listed(t1)
        /\ Stored(t2) /\ ~Listed(t2)
        /\ \E a \in FindClientByFeatured(trees, 1, MaxTrees) :
              Range(a.videos) = {t1} /\ a.count = 1
        /\ \E a \in FindByCreator(trees, trees[t2].info.creator, 1, MaxTrees) :
              t2 \in Range(a.videos)

\* C16: findClientOne gives an unfinished tree (isEditing = true) to no
\* viewer other than its creator.  Stated for the trees that carry a title:
\* their info block, status included, was written by an update and owes
\* nothing to the defaults of a new tree.
C16_UnfinishedOnlyForCreator ==
    \A t \in TreeIds, v \in Viewers :
        (/\ Stored(t)
         /\ trees[t].info.isEditing
         /\ trees[t].info.title # Empty
         /\ v # trees[t].info.creator)
        => FindClientOne(trees, nodes, t, v) # "ok"

\* The flat node set X has exactly one null-parent node, every other
\* parentId is the id of a node of X, and no node is its own ancestor.
RECURSIVE LeadsToRoot(_, _, _)
LeadsToRoot(X, n, k) ==
    IF X[n].parentId = NullId THEN TRUE
    ELSE IF k = 0 \/ X[n].parentId \notin DOMAIN X THEN FALSE
    ELSE LeadsToRoot(X, X[n].parentId, k - 1)

OneRoot(X) == Cardinality({n \in DOMAIN X : X[n].parentId = NullId}) = 1

Resolves(X) ==
    \A n \in DOMAIN X :
        X[n].parentId # NullId => X[n].parentId \in DOMAIN X

Acyclic(X) ==
    \A n \in DOMAIN X :
        X[n].parentId \in DOMAIN X => LeadsToRoot(X, n, Cardinality(DOMAIN X))

WellFormedSet(X) == OneRoot(X) /\ Resolves(X) /\ Acyclic(X)

\* The layers of X are the depths: 0 for a null-parent node, the parent's
\* layer + 1 for the others.
LayersOfDepth(X) ==
    \A n \in DOMAIN X :
        IF X[n].parentId = NullId THEN X[n].layer = 0
        ELSE X[n].parentId \in DOMAIN X =>
                X[n].layer = X[X[n].parentId].layer + 1

\* The ids of the nodes of a nested tree, one entry for each node.
RECURSIVE IdsOf(_)
IdsOf(node) ==
    <<node.id>> \o Concat([i \in DOMAIN node.children |-> IdsOf(node.children[i])])

\* Every node of the nested tree is the record X holds for its id, and its
\* children are the nodes of X whose parentId is its id.
RECURSIVE NestedAs(_, _)
NestedAs(X, node) ==
    /\ node.id \in DOMAIN X
    /\ node.parentId = X[node.id].parentId
    /\ node.layer = X[node.id].layer
    /\ node.info = X[node.id].info
    /\ {node.children[i].id : i \in DOMAIN node.children} = Group(X, node.id)
    /\ Len(node.children) = Cardinality(Group(X, node.id))
    /\ \A i \in DOMAIN node.children : NestedAs(X, node.children[i])

\* C17: on a well-formed flat node set the Tree Builder, as findOne calls
\* it, returns a nested tree that holds every input node exactly once,
\* whose root is the null-parent node, of layer 0, and in which the
\* children of each node are the input nodes whose parentId is its id.
C17_BuildsEveryNodeOnce ==
    (query # NoDoc /\ query.step # "asked" /\ WellFormedSet(query.flat)) =>
        LET X == query.flat
            ids == IdsOf(query.answer.root)
        IN  /\ query.answer.kind = "ok"
            /\ Len(ids) = Cardinality(DOMAIN X)
            /\ \A n \in DOMAIN X :
                  Cardinality({i \in DOMAIN ids : ids[i] = n}) = 1
            /\ query.answer.root.parentId = NullId
            /\ query.answer.root.layer = 0
            /\ NestedAs(X, query.answer.root)

\* C17, its case: a well-formed set of three nodes in a chain, root, child
\* and grandchild, has been built.
C17_Witness ==
    /\ query # NoDoc /\ query.step = "answered"
    /\ WellFormedSet(query.flat) /\ LayersOfDepth(query.flat)
    /\ \E a, b, c \in DOMAIN query.flat :
          /\ query.flat[a].parentId = NullId
          /\ query.flat[b].parentId = a
          /\ query.flat[c].parentId = b
          /\ query.answer.kind = "ok"
          /\ query.answer.root.id = a
          /\ query.answer.root.children[1].id = b
          /\ query.answer.root.children[1].children[1].id = c

\* The sequence s holds the records of X, each once and nothing else.
SameMultiset(s, X) ==
    /\ Len(s) = Cardinality(DOMAIN X)
    /\ \A n \in DOMAIN X :
          Cardinality({i \in DOMAIN s :
              s[i] = [id |-> n, parentId |-> X[n].parentId,
                      layer |-> X[n].layer, info |-> X[n].info]}) = 1

\* C18: flattening the nested tree built from a well-formed flat node set
\* X, whose layers are the depths, yields the node records (id, parentId,
\* layer, payload) of X, each once.
C18_FlattenOfBuild ==
    (/\ query # NoDoc
     /\ query.step = "flattened"
     /\ WellFormedSet(query.flat)
     /\ LayersOfDepth(query.flat))
    => SameMultiset(query.flattened, query.flat)

\* C18, its case: a well-formed set in which the root has two children, or
\* a child and a grandchild, has been built and flattened.
C18_Witness ==
    /\ query # NoDoc /\ query.step = "flattened"
    /\ WellFormedSet(query.flat) /\ LayersOfDepth(query.flat)
    /\ Cardinality(DOMAIN query.flat) = 3
    /\ SameMultiset(query.flattened, query.flat)

Roots(X) == {n \in DOMAIN X : X[n].parentId = NullId}

\* C19: on a flat node set that is not well-formed the Tree Builder gives
\* an error and no tree, and findOne returns that error: no root when no
\* node has a null parent, multiple roots when two or more have, else a
\* dangling reference or a cycle, one of which is then present; a set whose
\* only defect is a dangling reference is reported as dangling, one whose
\* only defect is a cycle as a cycle.
C19_MalformedFails ==
    (query # NoDoc /\ query.step # "asked" /\ ~WellFormedSet(query.flat)) =>
        LET X == query.flat
            kind == query.answer.kind
        IN  /\ DOMAIN query.answer = {"kind"}
            /\ query.answer = Build(X)
            /\ kind \in {"no_root", "multiple_roots", "dangling", "cycle"}
            /\ kind = "no_root" <=> Roots(X) = {}
            /\ kind = "multiple_roots" <=> Cardinality(Roots(X)) > 1
            /\ kind = "dangling" => ~Resolves(X)
            /\ kind = "cycle" => ~Acyclic(X)
            /\ (OneRoot(X) /\ ~Resolves(X) /\ Acyclic(X)) => kind = "dangling"
            /\ (OneRoot(X) /\ Resolves(X)) => kind = "cycle"

\* C19, its case: beside a root, node A has parent B and node B has parent
\* A, and findOne has returned the cycle error.
C19_Witness ==
    /\ query # NoDoc /\ query.step = "answered"
    /\ \E r, a, b \in DOMAIN query.flat :
          /\ a # b
          /\ query.flat[r].parentId = NullId
          /\ query.flat[a].parentId = b
          /\ query.flat[b].parentId = a
    /\ query.answer = Failure("cycle")

\* C20: the History collection holds at most one record for each pair of a
\* viewer and a tree.
C20_OneHistoryPerPair ==
    \A i, j \in DOMAIN histories :
        (histories[i].user = histories[j].user
         /\ histories[i].tree = histories[j].tree) => i = j

\* C21: the favorites of every stored tree hold each viewer at most once,
\* whatever updateFavorites and update calls ran, in whatever order.
C21_FavoritesNoDuplicates ==
    \A t \in TreeIds :
        Stored(t) =>
            \A i, j \in DOMAIN trees[t].data.favorites :
                trees[t].data.favorites[i] = trees[t].data.favorites[j] => i = j

\* C21, its case: an update of a tree has succeeded, a viewer has toggled
\* the tree once, and its favorites are not empty.
C21_Witness ==
    \E p \in Procs :
        /\ procs[p].pc = "done" /\ procs[p].op = "update"
        /\ procs[p].result = "ok"
        /\ Stored(procs[p].id)
        /\ Len(trees[procs[p].id].data.favorites) >= 1
        /\ \E u \in Users : toggles[procs[p].id][u] = 1

\* Every node of the submission sh has a payload.
Filled(sh) ==
    sh.rootInfo # Empty /\ \A k \in sh.kids : k.info # Empty

\* C22: the isEditing value that update stores is decided by the title and
\* the node contents of the submission, whatever flag it carries: it is
\* false exactly when the title is set and every submitted node has
\* content.  infoNodes[t] is the node part of the submission whose info
\* block is the one stored for t.
C22_IsEditingRecomputed ==
    \A t \in TreeIds :
        (Stored(t) /\ infoNodes[t] # NoDoc) =>
            (~trees[t].info.isEditing
                <=> (trees[t].info.title # Empty /\ Filled(infoNodes[t])))

\* Request p, an update call, takes a step.
UpdateSteps(p) ==
    /\ procs'[p] # procs[p]
    /\ procs'[p].op = "update"

\* C23: no step of an update call changes the views or the favorites of a
\* tree, whatever data block the submission carries; the save of an update
\* keeps the views and favorites the tree has when it is saved, those set
\* since the update read the tree included.
C23_UpdateKeepsData ==
    [][\A p \in Procs :
        UpdateSteps(p) =>
            \A t \in TreeIds :
                (Stored(t) /\ trees'[t] # NoDoc) =>
                    trees'[t].data = trees[t].data]_vars

\* C23, its case: an update has saved a tree that was viewed or put in a
\* viewer's favorites after the update read it, and the view or the
\* favorite is stored.
C23_Witness ==
    \E p \in Procs :
        /\ procs[p].pc = "done" /\ procs[p].op = "update"
        /\ procs[p].result = "ok"
        /\ Stored(procs[p].id)
        /\ procs[p].stale
        /\ \/ /\ incs[procs[p].id] = 1
              /\ trees[procs[p].id].data.views = 1
           \/ \E u \in Users :
                 /\ toggles[procs[p].id][u] = 1
                 /\ trees[procs[p].id].data.favorites = <<u>>
====
